---- MODULE Spec2Model ----
(***************************************************************************)
(* A model of facemap/pose/pose.py: the Pose object (bounding boxes,      *)
(* resize/padding flags, model and its provenance flag), its operations   *)
(* (pose_prediction_setup, run_all, run_subset, train, load_model,        *)
(* write_dataframe, predict_landmarks, save_pose_prediction) and the      *)
(* files they write.  Calls are modelled step by step: pc is the place    *)
(* the running call has reached, "idle" when no call is running.          *)
(***************************************************************************)
EXTENDS Integers, Sequences, FiniteSets, TLC

\* ------------------------------------------------------------------ bounds
MaxVideos == 2          \* videos (views) in filenames[0]
MaxFrames == 1          \* cumframes[-1] ranges over 0..MaxFrames (and SubsetDivisor)
MaxBboxLen == 3         \* appends to self.bbox stop being explored past this length
MaxFaults == 1          \* environment failures (load, fetch, write) in one behaviour

\* ------------------------------------------------------- program constants
ModelSide == 256        \* the model's fixed input side: current_size=(256, 256)
SubsetDivisor == 10     \* subset_size = int(self.nframes / 10)
BatchSize == 1          \* batch_size = 1 on both branches
ProgressPercent == 5    \* np.floor(total_frames * 0.05)

\* --------------------------------------------------------------- utilities
Min(a, b) == IF a <= b THEN a ELSE b
Range(s) == {s[i] : i \in DOMAIN s}

\* Exact rationals <<numerator, denominator>>, denominator > 0.
Rat(n) == <<n, 1>>
RAdd(a, b) == <<a[1] * b[2] + b[1] * a[2], a[2] * b[2]>>
RSub(a, b) == <<a[1] * b[2] - b[1] * a[2], a[2] * b[2]>>
RMulDiv(a, n, d) == <<a[1] * n, a[2] * d>>
REq(a, b) == a[1] * b[2] = b[1] * a[2]

RECURSIVE Gcd(_, _)
Gcd(a, b) == IF b = 0 THEN a ELSE Gcd(b, a % b)
Abs(n) == IF n < 0 THEN -n ELSE n
\* A rational in lowest terms, so that equal values are equal tuples.
RNorm(a) ==
    LET g == Gcd(Abs(a[1]), a[2]) IN
    IF g = 0 THEN <<0, 1>> ELSE <<a[1] \div g, a[2] \div g>>

\* ------------------------------------------------- geometric transform
\* A bounding box is <<x1, x2, y1, y2>> in raw frame coordinates.
CropShape(b) == <<b[2] - b[1], b[4] - b[3]>>

\* The box lies inside the Ly x Lx frame and has x2 > x1, y2 > y1.
BboxConsistent(b, ly, lx) ==
    /\ 0 <= b[1] /\ b[1] < b[2] /\ b[2] <= ly
    /\ 0 <= b[3] /\ b[3] < b[4] /\ b[4] <= lx

\* Symmetric padding of a non-square crop to a square: <<x before, x after,
\* y before, y after>>; the shorter axis receives the difference.
PadToSquare(shape) ==
    LET d == Abs(shape[1] - shape[2])
        before == d \div 2
        after == d - before
    IN  IF shape[1] < shape[2] THEN <<before, after, 0, 0>>
        ELSE IF shape[2] < shape[1] THEN <<0, 0, before, after>>
        ELSE <<0, 0, 0, 0>>

\* transforms.preprocess_img: crop to bbox, pad if add_padding, resize to
\* ModelSide x ModelSide if resize.  postpad_shape is the crop+pad shape
\* before the resize; shape is the shape handed to the network.
preprocess_img(b, add_pad, rsz) ==
    LET crop == CropShape(b)
        pads == IF add_pad THEN PadToSquare(crop) ELSE <<0, 0, 0, 0>>
        postpad == <<crop[1] + pads[1] + pads[2], crop[2] + pads[3] + pads[4]>>
    IN  [postpad_shape |-> postpad,
         pads |-> pads,
         shape |-> IF rsz THEN <<ModelSide, ModelSide>> ELSE postpad]

\* Where preprocess_img puts the raw point p = <<px, py>> of the frame: the
\* same crop, pad and resize applied to a coordinate.
NormalizePoint(p, b, add_pad, rsz) ==
    LET pre == preprocess_img(b, add_pad, rsz)
        cx == Rat(p[1] - b[1] + pre.pads[1])
        cy == Rat(p[2] - b[3] + pre.pads[3])
    IN  <<RMulDiv(cx, pre.shape[1], pre.postpad_shape[1]),
          RMulDiv(cy, pre.shape[2], pre.postpad_shape[2])>>

\* transforms.adjust_keypoints: rescale by desired_size / current_size, take
\* the padding off, add the crop origin.
adjust_keypoints(xy, crop_xy, padding, current_size, desired_size) ==
    <<RAdd(RSub(RMulDiv(xy[1], desired_size[1], current_size[1]),
                Rat(padding[1])), Rat(crop_xy[1])),
      RAdd(RSub(RMulDiv(xy[2], desired_size[2], current_size[2]),
                Rat(padding[3])), Rat(crop_xy[2]))>>

\* pose_utils.predict: the network is an opaque deterministic function of
\* its weights and its input; here of the model's provenance, the frame and the
\* keypoint.  <<x, y, likelihood>> with x, y inside the input image.  A
\* module left in training mode is not deterministic (noise is what its
\* dropout and batch statistics add); in eval mode noise is 0.
NetOut(kind, shape, frame, k, noise) ==
    <<Rat((3 * frame + 5 * k + noise + (IF kind = "finetuned" THEN 1 ELSE 0)) % shape[1]),
      Rat((7 * frame + 2 * k) % shape[2]),
      Rat(1)>>

\* ------------------------------------------------------------------ state
VARIABLES
    filenames,        \* self.filenames[0]: one path [dir, stem, ext] per video
    Ly, Lx,           \* per-video frame height and width
    nframes,          \* self.nframes = self.cumframes[-1]
    gui,              \* TRUE iff a GUI object (the progress receiver) is attached
    bbox,             \* self.bbox: list of <<x1, x2, y1, y2>>
    bbox_set,         \* self.bbox_set
    resize,           \* self.resize
    add_padding,      \* self.add_padding
    net,              \* self.net: [kind, bodyparts, training]; kind "none" is None
    bodyparts,        \* self.bodyparts: [none, names]
    finetuned_model,  \* self.finetuned_model
    poseFilepath,     \* self.gui.poseFilepath, the GUI's list of table paths
    disk,             \* the files written: path :> the video the content is of
    pc,               \* where the running call is; "idle" between calls, "returned" and
                      \* "raised" when its outcome is with the caller
    call,             \* the running call and its arguments
    video_id,         \* run_all's loop variable (1-based here)
    frame_ind,        \* predict_landmarks: the requested frame indices
    total_frames,     \* predict_landmarks: their number
    pred_data,        \* predict_landmarks: the prediction buffer, one row per frame
    start, end,       \* predict_landmarks: the batch's row range [start, end)
    crop_xy,          \* predict_landmarks: x1, y1 of self.bbox[video_id]
    inference_time,   \* predict_landmarks: elapsed ticks, one per batch
    nprogress,        \* predict_landmarks: progress events emitted in this run
    metadata,         \* the metadata record predict_landmarks returned
    dataFrame,        \* run_all: the table write_dataframe returned
    savepath,         \* run_all: the path save_pose_prediction returned
    err,              \* the exception the call raised, "none" if none
    ret,              \* what the call returned to its caller
    fetched,          \* calls of utils.get_frames made by the running call
    written,          \* paths the running call has written
    lastRun,          \* the last completed full predict_landmarks run
    faults,           \* environment failures still to come
    default_bbox,     \* the list that is the default value of __init__'s bbox parameter
    bbox_shared       \* TRUE iff self.bbox is that list (no bbox argument was given)

config == <<filenames, Ly, Lx, nframes, gui>>
object == <<bbox, bbox_set, resize, add_padding, net, bodyparts, finetuned_model>>
locals == <<video_id, frame_ind, total_frames, pred_data, start, end, crop_xy,
            inference_time, nprogress, metadata, dataFrame, savepath>>
ghost == <<fetched, written, lastRun>>
\* What outlives a Pose object: the parameter default.
class == <<default_bbox>>
vars == <<config, object, poseFilepath, disk, pc, call, locals, err, ret, ghost, faults,
          class, bbox_shared>>

\* ----------------------------------------------------------------- values
NoNet == [kind |-> "none", bodyparts |-> <<>>, training |-> FALSE]
NoBodyparts == [none |-> TRUE, names |-> <<>>]
Bodyparts(names) == [none |-> FALSE, names |-> names]
NoRet == [kind |-> "None"]
NoMeta == [kind |-> "None"]
NoTable == [kind |-> "None"]
NoPath == [dir |-> "", name |-> <<>>, ext |-> ""]
NoRun == [kind |-> "None"]

\* model_params["params"]["bodyparts"] of the model directory's descriptor.
ParamsBodyparts == <<"eye", "nose">>
\* Networks a caller may hand to the constructor: their provenance is the
\* caller's business (kind "supplied"), their keypoints the model
\* directory's or the caller's own.
SuppliedNet(names) == [kind |-> "supplied", bodyparts |-> names, training |-> TRUE]
SuppliedNets == { SuppliedNet(ParamsBodyparts), SuppliedNet(<<"whisker">>) }

\* Frame shapes <<Ly, Lx>> of the videos.
Shapes == { <<256, 256>>, <<131, 128>> }
FrameCounts == (0 .. MaxFrames) \cup {SubsetDivisor}

VideoFile(d, s, e) == [dir |-> d, stem |-> s, ext |-> e]
VideoFiles ==
    << VideoFile("a", "cam0", ".avi"), VideoFile("a", "cam1", ".avi"),
       VideoFile("b", "cam0", ".avi"), VideoFile("a", "cam0", ".mp4") >>
\* Lists of n distinct video files in the order of VideoFiles, the first
\* always VideoFiles[1].
FileLists(n) ==
    { [i \in 1 .. n |-> VideoFiles[q[i]]] : q \in
        { q \in [1 .. n -> DOMAIN VideoFiles] :
            /\ q[1] = 1
            /\ \A i, j \in 1 .. n : i < j => q[i] < q[j] } }
GuiSavePath == "out"

\* Boxes a user may hand to the constructor for a frame of ly x lx.
UserKinds == {"full", "inner", "outside", "inverted"}
UserBox(kind, ly, lx) ==
    CASE kind = "full" -> <<0, ly, 0, lx>>
      [] kind = "inner" -> <<ly \div 4, ly, 0, lx \div 2>>
      [] kind = "outside" -> <<0, ly + 16, 0, lx>>
      [] kind = "inverted" -> <<ly \div 2, ly \div 4, 0, lx>>

\* ------------------------------------------------------------------- Init
NoLocals ==
    /\ video_id = 0 /\ frame_ind = <<>> /\ total_frames = 0 /\ pred_data = <<>>
    /\ start = 0 /\ end = 0 /\ crop_xy = <<0, 0>> /\ inference_time = 0
    /\ nprogress = 0 /\ metadata = NoMeta /\ dataFrame = NoTable
    /\ savepath = NoPath

\* Pose.__init__ on an opened video set: the fields as the constructor
\* leaves them.  bk is "default" (no bbox argument, bbox_set=False) or the
\* kind of the user's boxes (bbox_set=True).
Construct(shapes, files, nf, g, bk, rs, ap, n, bp, nfaults) ==
    /\ filenames = files
    /\ Ly = [i \in DOMAIN shapes |-> shapes[i][1]]
    /\ Lx = [i \in DOMAIN shapes |-> shapes[i][2]]
    /\ nframes = nf
    /\ gui = g
    /\ bbox = IF bk = "default" THEN <<>>
              ELSE [i \in DOMAIN shapes |-> UserBox(bk, shapes[i][1], shapes[i][2])]
    /\ bbox_set = (bk # "default")
    /\ resize = rs
    /\ add_padding = ap
    /\ net = n
    /\ bodyparts = bp
    /\ finetuned_model = FALSE
    /\ poseFilepath = <<>>
    /\ disk = <<>>
    /\ pc = "idle"
    /\ call = [op |-> "none"]
    /\ NoLocals
    /\ err = "none"
    /\ ret = NoRet
    /\ fetched = 0
    /\ written = {}
    /\ lastRun = NoRun
    /\ faults = nfaults
    /\ default_bbox = <<>>
    /\ bbox_shared = (bk = "default")

\* The constructor's (net, bodyparts) arguments explored.
NetArgs ==
    { <<NoNet, NoBodyparts>> }
    \cup { <<n, Bodyparts(n.bodyparts)>> : n \in SuppliedNets }
    \cup { <<SuppliedNet(<<"whisker">>), NoBodyparts>> }

\* Geometry: every frame shape, box kind and flag combination, on a GUI-run
\* object with a supplied network and a one-frame video set, in an
\* environment that does not fail.
InitGeometry ==
    \E nv \in 1 .. MaxVideos :
    \E shapes \in [1 .. nv -> Shapes] :
    \E bk \in {"default"} \cup UserKinds :
    \E rs \in BOOLEAN, ap \in BOOLEAN :
        Construct(shapes, [i \in 1 .. nv |-> VideoFiles[i]], 1, TRUE, bk, rs, ap,
                  SuppliedNet(ParamsBodyparts), Bodyparts(ParamsBodyparts), 0)

\* Video sets: every file list and receiver, with and without user boxes,
\* on 256 x 256 one-frame videos, the model still to be loaded.
InitFiles ==
    \E nv \in 1 .. MaxVideos :
    \E files \in FileLists(nv) :
    \E g \in BOOLEAN :
    \E bk \in {"default", "full"} :
        Construct([i \in 1 .. nv |-> <<ModelSide, ModelSide>>], files, 1, g, bk,
                  FALSE, FALSE, NoNet, NoBodyparts, MaxFaults)

\* Models and frame counts: every network argument and frame count, with
\* and without a receiver and user boxes, on one 256 x 256 video.
InitModels ==
    \E nf \in FrameCounts :
    \E g \in BOOLEAN :
    \E bk \in {"default", "full"} :
    \E na \in NetArgs :
        Construct(<< <<ModelSide, ModelSide>> >>, <<VideoFiles[1]>>, nf, g, bk,
                  FALSE, FALSE, na[1], na[2], MaxFaults)

\* Progress: one 256 x 256 video of the fewest frames for which
\* np.floor(total_frames * 0.05) is not 0, on a GUI-run object with a supplied
\* network, in an environment that does not fail.
InitProgress ==
    Construct(<< <<ModelSide, ModelSide>> >>, <<VideoFiles[1]>>,
              100 \div ProgressPercent, TRUE, "default", FALSE, FALSE,
              SuppliedNet(ParamsBodyparts), Bodyparts(ParamsBodyparts), 0)

Init == InitGeometry \/ InitFiles \/ InitModels \/ InitProgress

\* ------------------------------------------------------------ pure helpers
NumVideos == Len(filenames)
FullFrame(i) == <<0, Ly[i], 0, Lx[i]>>

\* Pose.load_model(model_state_file): custom is "a state file was given";
\* outcome is "ok", "params_fail" (torch.load of the descriptor raises) or
\* "state_fail" (load_state_dict raises).  The fields it leaves and a raised
\* exception.
load_model(custom, outcome) ==
    [finetuned_model |-> IF custom THEN TRUE ELSE finetuned_model,
     bodyparts |-> IF outcome = "params_fail" THEN bodyparts
                   ELSE Bodyparts(ParamsBodyparts),
     net |-> IF outcome = "ok"
             THEN [kind |-> IF custom THEN "finetuned" ELSE "pretrained",
                   bodyparts |-> ParamsBodyparts, training |-> TRUE]
             ELSE net,
     err |-> IF outcome = "ok" THEN "none" ELSE "ModelLoadError"]

\* A loop body that compares the box with the wrong side and so asks for a
\* resize of every video.
AutoBboxStepResizes(st, i) ==
    [bbox |-> Append(st.bbox, <<0, Ly[i], 0, Lx[i]>>),
     add_padding |-> st.add_padding \/ (Ly[i] # Lx[i]),
     resize |-> TRUE]

\* One pass of pose_prediction_setup's loop body for video i: append the
\* full-frame box, raise the flags.
AutoBboxStep(st, i) ==
    LET b == FullFrame(i) IN
    [bbox |-> Append(st.bbox, b),
     add_padding |-> st.add_padding \/ (b[2] - b[1] # b[4] - b[3]),
     resize |-> st.resize \/ (b[2] - b[1] # ModelSide \/ b[4] - b[3] # ModelSide)]

RECURSIVE AutoBbox(_, _, _)
AutoBbox(st, i, n) == IF i > n THEN st ELSE AutoBbox(AutoBboxStep(st, i), i + 1, n)

\* The bounding-box part of pose_prediction_setup.  The prompt reads
\* self.gui.bbox, so without a GUI the first pass raises AttributeError after
\* the append and the flag updates, and bbox_set stays False.
SetupBbox ==
    LET st0 == [bbox |-> bbox, add_padding |-> add_padding, resize |-> resize] IN
    IF bbox_set THEN st0 @@ [bbox_set |-> TRUE, err |-> "none"]
    ELSE IF gui THEN AutoBbox(st0, 1, Len(Ly)) @@ [bbox_set |-> TRUE, err |-> "none"]
    ELSE IF Len(Ly) = 0 THEN st0 @@ [bbox_set |-> TRUE, err |-> "none"]
    ELSE AutoBboxStep(st0, 1) @@ [bbox_set |-> FALSE, err |-> "AttributeError"]

\* Whether pose_prediction_setup calls load_model.
SetupLoads == net.kind = "none"

\* Pose.save_pose_prediction's path for video v.
PoseFilepath(v) ==
    [dir |-> IF gui THEN GuiSavePath ELSE filenames[v].dir,
     name |-> <<filenames[v].stem,
                IF finetuned_model THEN "_FacemapPoseFinetuned" ELSE "_FacemapPose">>,
     ext |-> ".h5"]

\* run_all's metadata path: os.path.splitext(savepath)[0] + suffix.
MetadataFile(sp) ==
    [dir |-> sp.dir,
     name |-> Append(sp.name, IF finetuned_model THEN "_FacemapFinetuned_metadata"
                                                 ELSE "_Facemap_metadata"),
     ext |-> ".pkl"]

\* Pose.write_dataframe(data, selected_frame_ind): data is a sequence of rows,
\* each a sequence of <<x, y, likelihood>>, k its number of keypoints; sel
\* is [none, ind].  The table or the exception raised.
Coords == <<"x", "y", "likelihood">>
write_dataframe(data, k, sel) ==
    LET names == bodyparts.names
        index == IF sel.none THEN [i \in 1 .. nframes |-> i - 1] ELSE sel.ind
        columns == [c \in 1 .. 3 * Len(names) |->
                       <<names[((c - 1) \div 3) + 1], Coords[((c - 1) % 3) + 1]>>]
    IN  IF bodyparts.none THEN [err |-> "TypeError", table |-> NoTable]
        ELSE IF Len(names) = 0 THEN [err |-> "UnboundLocalError", table |-> NoTable]
        ELSE IF Len(data) # Len(index) \/ k # Len(names)
             THEN [err |-> "ValueError", table |-> NoTable]
        ELSE [err |-> "none",
              table |-> [kind |-> "table",
                         columns |-> columns,
                         index |-> index,
                         values |-> [r \in 1 .. Len(data) |->
                                       [c \in 1 .. 3 * k |->
                                          data[r][((c - 1) \div 3) + 1][((c - 1) % 3) + 1]]]]]

\* One batch of predict_landmarks for frame f of video v: preprocess, infer,
\* adjust.  The row of pred_data, one <<x, y, likelihood>> per keypoint.
PredictRow(v, f, noise) ==
    LET pre == preprocess_img(bbox[v], add_padding, resize) IN
    [k \in 1 .. Len(net.bodyparts) |->
        LET out == NetOut(net.kind, pre.shape, f, k, noise)
            xy == adjust_keypoints(<<out[1], out[2]>>, crop_xy, pre.pads,
                                   <<ModelSide, ModelSide>>, pre.postpad_shape)
        IN  <<RNorm(xy[1]), RNorm(xy[2]), out[3]>>]

\* np.floor(total_frames * 0.05)
ProgressStep(total) == (total * 5) \div 100
\* (end) % np.floor(total_frames * 0.05) == 0; a zero step gives nan, not 0.
ProgressDue(e, total) == ProgressStep(total) # 0 /\ e % ProgressStep(total) = 0

\* ---------------------------------------------------------------- actions
LocalsCleared ==
    /\ video_id' = 0 /\ frame_ind' = <<>> /\ total_frames' = 0 /\ pred_data' = <<>>
    /\ start' = 0 /\ end' = 0 /\ crop_xy' = <<0, 0>> /\ inference_time' = 0
    /\ nprogress' = 0 /\ metadata' = NoMeta /\ dataFrame' = NoTable
    /\ savepath' = NoPath

NoCall == [op |-> "none"]

\* The call ends with an exception / with a return value.
Raise(e) == pc' = "raised" /\ err' = e /\ ret' = NoRet
Return(r) == pc' = "returned" /\ err' = "none" /\ ret' = r
Running(p) == pc' = p /\ UNCHANGED <<err, ret>>

\* An environment step that succeeds (ok) or fails, within the fault budget.
Env(ok) == (ok \/ faults > 0) /\ faults' = IF ok THEN faults ELSE faults - 1

\* A caller starts a call on the idle object.
Enter(c) == pc = "idle" /\ call' = c

\* Calls that run pose_prediction_setup first do not grow self.bbox past
\* MaxBboxLen.
BboxRoom == bbox_set \/ Len(bbox) + (IF gui THEN Len(Ly) ELSE 1) <= MaxBboxLen

NoSel == [none |-> TRUE, ind |-> <<>>]
Sel(ind) == [none |-> FALSE, ind |-> ind]

CallSetup ==
    /\ Enter([op |-> "pose_prediction_setup"])
    /\ BboxRoom
    /\ Running("setup")
    /\ UNCHANGED <<config, class, bbox_shared, object, poseFilepath, disk, locals, ghost, faults>>

CallRunAll ==
    /\ Enter([op |-> "run_all"])
    /\ BboxRoom
    /\ Running("setup")
    /\ UNCHANGED <<config, class, bbox_shared, object, poseFilepath, disk, locals, ghost, faults>>

CallRunSubset ==
    \E sel \in IF nframes > 0 THEN {NoSel, Sel(<<0>>)} ELSE {NoSel} :
        /\ Enter([op |-> "run_subset", subset_ind |-> sel, given |-> ~sel.none])
        /\ BboxRoom
        /\ Running("setup")
        /\ UNCHANGED <<config, class, bbox_shared, object, poseFilepath, disk, locals, ghost, faults>>

LoadOutcomes == {"ok", "params_fail", "state_fail"}

\* A setup that decodes a first frame before the model is loaded.
SetupFetchedProbe == fetched + 1

\* Frames pose_prediction_setup has fetched when it returns or raises: it
\* calls neither utils.get_frames nor predict_landmarks.
SetupFetched == fetched

\* self.bbox.append on a list that is the parameter default appends to the
\* default: the list every later Pose() without a bbox argument starts from.
DefaultBbox(new) == IF bbox_shared THEN new ELSE default_bbox

\* pose_prediction_setup, whole: load the model if there is none, derive the
\* boxes if they are unset; then the caller's next statement.
Setup ==
    /\ pc = "setup"
    /\ \E outcome \in IF SetupLoads THEN LoadOutcomes ELSE {"ok"} :
        LET lm == IF SetupLoads THEN load_model(FALSE, outcome)
                  ELSE [finetuned_model |-> finetuned_model, bodyparts |-> bodyparts,
                        net |-> net, err |-> "none"]
            sb == SetupBbox
        IN  /\ Env(outcome = "ok")
            /\ net' = lm.net
            /\ bodyparts' = lm.bodyparts
            /\ finetuned_model' = lm.finetuned_model
            /\ fetched' = SetupFetched
            /\ default_bbox' = IF lm.err = "none" THEN DefaultBbox(sb.bbox)
                               ELSE default_bbox
            /\ lastRun' = IF SetupLoads THEN NoRun ELSE lastRun
            /\ IF lm.err # "none"
               THEN /\ Raise(lm.err)
                    /\ UNCHANGED <<bbox, bbox_set, resize, add_padding, locals>>
               ELSE /\ bbox' = sb.bbox
                    /\ bbox_set' = sb.bbox_set
                    /\ resize' = sb.resize
                    /\ add_padding' = sb.add_padding
                    /\ IF sb.err # "none"
                       THEN Raise(sb.err) /\ UNCHANGED locals
                       ELSE IF call.op = "run_all"
                       THEN /\ Running("loop")
                            /\ video_id' = 1
                            /\ UNCHANGED <<frame_ind, total_frames, pred_data, start, end,
                                           crop_xy, inference_time, nprogress, metadata,
                                           dataFrame, savepath>>
                       ELSE IF call.op = "run_subset"
                       THEN Running("subset") /\ UNCHANGED locals
                       ELSE Return(NoRet) /\ UNCHANGED locals
    /\ UNCHANGED <<config, bbox_shared, poseFilepath, disk, call, written>>

\* Pose.load_model called by the user, with or without a state file.
CallLoadModel ==
    \E custom \in BOOLEAN, outcome \in LoadOutcomes :
        LET lm == load_model(custom, outcome) IN
        /\ Enter([op |-> "load_model", custom |-> custom])
        /\ Env(outcome = "ok")
        /\ net' = lm.net
        /\ bodyparts' = lm.bodyparts
        /\ finetuned_model' = lm.finetuned_model
        /\ lastRun' = NoRun
        /\ IF lm.err = "none" THEN Return(NoRet) ELSE Raise(lm.err)
        /\ UNCHANGED <<config, class, bbox_shared, bbox, bbox_set, resize, add_padding, poseFilepath, disk,
                       locals, fetched, written>>

\* Pose.train: reads self.bbox[0], replaces self.net by the trained network
\* (left in training mode) and marks the model fine-tuned.
CallTrain ==
    /\ Enter([op |-> "train"])
    /\ lastRun' = NoRun
    /\ IF Len(bbox) = 0
       THEN Raise("IndexError") /\ UNCHANGED <<net, finetuned_model>>
       ELSE IF net.kind = "none"
       THEN Raise("AttributeError") /\ UNCHANGED <<net, finetuned_model>>
       ELSE /\ net' = [net EXCEPT !.kind = "finetuned", !.training = TRUE]
            /\ finetuned_model' = TRUE
            /\ Return([kind |-> "net"])
    /\ UNCHANGED <<config, class, bbox_shared, bbox, bbox_set, resize, add_padding, bodyparts,
                   poseFilepath, disk, locals, fetched, written, faults>>

\* A predict_landmarks that leaves the network in the mode it finds it in.
EvalModeMissing(n) == n

\* self.net.eval(): predict_landmarks puts the network in inference mode.
EvalMode(n) == [n EXCEPT !.training = FALSE]

\* What a network in its current mode may add to its output.
Noise == IF net.training THEN {0, 1} ELSE {0}

ZeroRow == [k \in 1 .. Len(net.bodyparts) |-> <<Rat(0), Rat(0), Rat(0)>>]

\* predict_landmarks(v, find) up to its while loop; v is 1-based.
EnterPredict(v, find) ==
    IF net.kind = "none"
    THEN /\ Raise("AttributeError")
         /\ UNCHANGED <<net, frame_ind, total_frames, pred_data, start, end, crop_xy,
                        inference_time, nprogress>>
    ELSE /\ net' = EvalMode(net)
         /\ frame_ind' = find
         /\ total_frames' = Len(find)
         /\ pred_data' = [i \in 1 .. Len(find) |-> ZeroRow]
         /\ start' = 0
         /\ end' = BatchSize
         /\ inference_time' = 0
         /\ nprogress' = 0
         /\ IF v > Len(bbox)
            THEN Raise("IndexError") /\ UNCHANGED crop_xy
            ELSE crop_xy' = <<bbox[v][1], bbox[v][3]>> /\ Running("predict")

\* run_all's for loop reaches a video: predict_landmarks(video_id).
PredictEnter ==
    /\ pc = "loop"
    /\ video_id <= NumVideos
    /\ EnterPredict(video_id, [i \in 1 .. nframes |-> i - 1])
    /\ UNCHANGED <<config, class, bbox_shared, bbox, bbox_set, resize, add_padding, bodyparts,
                   finetuned_model, poseFilepath, disk, call, video_id, metadata,
                   dataFrame, savepath, ghost, faults>>

\* The strictly ascending sequence of a set of integers (np.sort).
SortedSeq(S) ==
    CHOOSE q \in [1 .. Cardinality(S) -> S] :
        \A i, j \in 1 .. Cardinality(S) : i < j => q[i] < q[j]

\* np.random.choice(n, size, replace=False): the sets it may draw.
RandomChoice(n, size) == {T \in SUBSET (0 .. n - 1) : Cardinality(T) = size}

\* run_subset after setup: draw the indices when none were given, then
\* predict_landmarks(0, frame_ind=subset_ind).
SubsetSelect ==
    /\ pc = "subset"
    /\ \E S \in IF call.given
                THEN {Range(call.subset_ind.ind)}
                ELSE RandomChoice(nframes, nframes \div SubsetDivisor) :
        LET ind == IF call.given THEN call.subset_ind.ind ELSE SortedSeq(S) IN
        /\ call' = [call EXCEPT !.subset_ind = Sel(ind)]
        /\ EnterPredict(1, ind)
    /\ UNCHANGED <<config, class, bbox_shared, bbox, bbox_set, resize, add_padding, bodyparts,
                   finetuned_model, poseFilepath, disk, video_id, metadata,
                   dataFrame, savepath, ghost, faults>>

\* The video predict_landmarks is running on.
PredictVideo == IF call.op = "run_all" THEN video_id ELSE 1

\* A store that takes the slice bounds for positions and writes one row late.
InBatchShifted(i) == start + 1 < i /\ i <= end + 1

\* pred_data[start:end]: row i (1-based here) is in the batch's slice.
InBatch(i) == start < i /\ i <= end

\* One pass of predict_landmarks's while loop (batch_size = 1): fetch the
\* frame, preprocess, infer, adjust, store the row, advance, report progress.
PredictBatch ==
    /\ pc = "predict"
    /\ start # total_frames
    /\ fetched' = fetched + 1
    /\ \E fetchOk \in BOOLEAN, noise \in Noise :
        /\ Env(fetchOk)
        /\ IF ~fetchOk
           THEN /\ Raise("FrameFetchError")
                /\ UNCHANGED <<pred_data, start, end, inference_time, nprogress>>
           ELSE IF ~BboxConsistent(bbox[PredictVideo], Ly[PredictVideo], Lx[PredictVideo])
           THEN /\ Raise("GeometricTransformError")
                /\ UNCHANGED <<pred_data, start, end, inference_time, nprogress>>
           ELSE /\ pred_data' = [i \in 1 .. Len(pred_data) |->
                                   IF InBatch(i)
                                   THEN PredictRow(PredictVideo, frame_ind[i], noise)
                                   ELSE pred_data[i]]
                /\ inference_time' = inference_time + 1
                /\ start' = end
                /\ end' = Min(end + BatchSize, total_frames)
                /\ nprogress' = IF ProgressDue(end', total_frames)
                                THEN nprogress + 1 ELSE nprogress
                /\ Running("predict")
    /\ UNCHANGED <<config, class, bbox_shared, object, poseFilepath, disk, call, video_id, frame_ind,
                   total_frames, crop_xy, metadata, dataFrame, savepath, written,
                   lastRun>>

\* The record of a completed predict_landmarks run: what it was given and
\* the buffer it returned.
RunRecord(v) ==
    [kind |-> "run", video |-> v, frame_ind |-> frame_ind, bbox |-> bbox,
     resize |-> resize, add_padding |-> add_padding, model |-> net.kind,
     bodyparts |-> net.bodyparts, pred |-> pred_data]

\* predict_landmarks after its loop: the inference speed, the metadata, the
\* return; run_subset then returns (pred_data, subset_ind, self.bbox).
PredictReturn ==
    /\ pc = "predict"
    /\ start = total_frames
    /\ IF inference_time = 0
       THEN /\ Raise("ZeroDivisionError")
            /\ UNCHANGED <<locals, lastRun>>
       ELSE IF call.op = "run_all"
       THEN /\ metadata' = [kind |-> "metadata",
                            batch_size |-> BatchSize,
                            image_size |-> <<Ly, Lx>>,
                            bbox |-> bbox[PredictVideo],
                            total_frames |-> total_frames,
                            bodyparts |-> net.bodyparts,
                            inference_speed |-> <<total_frames, inference_time>>]
            /\ lastRun' = RunRecord(PredictVideo)
            /\ Running("table")
            /\ UNCHANGED <<video_id, frame_ind, total_frames, pred_data, start, end,
                           crop_xy, inference_time, nprogress, dataFrame, savepath>>
       ELSE /\ Return([kind |-> "subset", pred_data |-> pred_data,
                       subset_ind |-> frame_ind, bbox |-> bbox])
            /\ LocalsCleared
            /\ UNCHANGED lastRun
    /\ UNCHANGED <<config, class, bbox_shared, object, poseFilepath, disk, call, fetched, written, faults>>

\* run_all: dataFrame = self.write_dataframe(pred_data.cpu().numpy())
WriteTable ==
    /\ pc = "table"
    /\ LET r == write_dataframe(pred_data, Len(net.bodyparts), NoSel) IN
       IF r.err # "none"
       THEN Raise(r.err) /\ UNCHANGED dataFrame
       ELSE dataFrame' = r.table /\ Running("save")
    /\ UNCHANGED <<config, class, bbox_shared, object, poseFilepath, disk, call, video_id, frame_ind,
                   total_frames, pred_data, start, end, crop_xy, inference_time,
                   nprogress, metadata, savepath, ghost, faults>>

\* A file written with mode "w": the path now holds this content.
WriteFile(d, path, content) ==
    [q \in DOMAIN d \cup {path} |-> IF q = path THEN content ELSE d[q]]

\* run_all: savepath = self.save_pose_prediction(dataFrame, video_id); to_hdf
\* raises when the destination cannot be written.
SavePrediction ==
    /\ pc = "save"
    /\ \E ok \in BOOLEAN :
        /\ Env(ok)
        /\ IF ok
           THEN /\ disk' = WriteFile(disk, PoseFilepath(video_id),
                                     [video |-> filenames[video_id], what |-> "table"])
                /\ written' = written \cup {PoseFilepath(video_id)}
                /\ savepath' = PoseFilepath(video_id)
                /\ Running("meta")
           ELSE Raise("PersistError") /\ UNCHANGED <<disk, written, savepath>>
    /\ UNCHANGED <<config, class, bbox_shared, object, poseFilepath, call, video_id, frame_ind,
                   total_frames, pred_data, start, end, crop_xy, inference_time,
                   nprogress, metadata, dataFrame, fetched, lastRun>>

\* update_gui_pose: the GUI's path list gets the path appended when empty,
\* else assigned at video_id, which raises past its end.
GuiPoseFilepath(sp) ==
    IF Len(poseFilepath) = 0 THEN [err |-> "none", list |-> <<sp>>]
    ELSE IF video_id > Len(poseFilepath) THEN [err |-> "IndexError", list |-> poseFilepath]
    ELSE [err |-> "none", list |-> [poseFilepath EXCEPT ![video_id] = sp]]

\* run_all: the metadata pickle, then the GUI update, then the next video.
SaveMetadata ==
    /\ pc = "meta"
    /\ \E ok \in BOOLEAN :
        /\ Env(ok)
        /\ IF ~ok
           THEN Raise("PersistError") /\ UNCHANGED <<disk, written, poseFilepath, video_id>>
           ELSE /\ disk' = WriteFile(disk, MetadataFile(savepath),
                                     [video |-> filenames[video_id], what |-> "metadata"])
                /\ written' = written \cup {MetadataFile(savepath)}
                /\ LET g == IF gui THEN GuiPoseFilepath(savepath)
                            ELSE [err |-> "none", list |-> poseFilepath] IN
                   /\ poseFilepath' = g.list
                   /\ IF g.err # "none"
                      THEN Raise(g.err) /\ UNCHANGED video_id
                      ELSE video_id' = video_id + 1 /\ Running("loop")
    /\ UNCHANGED <<config, class, bbox_shared, object, call, frame_ind, total_frames, pred_data, start, end,
                   crop_xy, inference_time, nprogress, metadata, dataFrame, savepath,
                   fetched, lastRun>>

\* run_all after its last video: it returns None.
RunAllReturn ==
    /\ pc = "loop"
    /\ video_id > NumVideos
    /\ Return(NoRet)
    /\ LocalsCleared
    /\ UNCHANGED <<config, class, bbox_shared, object, poseFilepath, disk, call, ghost, faults>>

\* A handler that removes what the failed call had written.
UnwindDiskCleanup == [q \in DOMAIN disk \ written |-> disk[q]]

\* The files after an exception has left the call: no handler touches them.
UnwindDisk == disk

\* An exception propagates to the caller: the call's locals are gone, the
\* object is idle again.
Unwind ==
    /\ pc = "raised"
    /\ pc' = "idle"
    /\ err' = "none"
    /\ call' = NoCall
    /\ disk' = UnwindDisk
    /\ fetched' = 0
    /\ written' = {}
    /\ LocalsCleared
    /\ UNCHANGED <<config, class, bbox_shared, object, poseFilepath, ret, lastRun, faults>>

\* The caller takes the return value: the object is idle again.
Ack ==
    /\ pc = "returned"
    /\ pc' = "idle"
    /\ ret' = NoRet
    /\ call' = NoCall
    /\ fetched' = 0
    /\ written' = {}
    /\ UNCHANGED <<config, class, bbox_shared, object, poseFilepath, disk, locals, err, lastRun, faults>>

\* Keypoint counts of the arrays handed to write_dataframe directly.
KeypointCounts == {1, Len(ParamsBodyparts)}

\* Pose.write_dataframe called directly with an n x k x 3 array, with or
\* without row labels.
CallWriteDataframe ==
    \E n \in 0 .. MaxFrames, k \in KeypointCounts, labelled \in BOOLEAN :
        LET data == [i \in 1 .. n |-> [j \in 1 .. k |-> <<Rat(0), Rat(0), Rat(0)>>]]
            sel == IF labelled THEN Sel([i \in 1 .. n |-> 2 * i]) ELSE NoSel
            r == write_dataframe(data, k, sel)
        IN  /\ Enter([op |-> "write_dataframe", n |-> n, k |-> k, sel |-> sel])
            /\ IF r.err = "none" THEN Return(r.table) ELSE Raise(r.err)
            /\ UNCHANGED <<config, class, bbox_shared, object, poseFilepath, disk, locals, ghost, faults>>

\* Pose(...) once more on the same video set, without a bbox argument and
\* without a network: self.bbox is the parameter default, whatever earlier
\* objects have appended to it; the other fields are the constructor's.
NewPose ==
    /\ pc = "idle"
    /\ bbox' = default_bbox
    /\ bbox_shared' = TRUE
    /\ bbox_set' = FALSE
    /\ resize' = FALSE
    /\ add_padding' = FALSE
    /\ net' = NoNet
    /\ bodyparts' = NoBodyparts
    /\ finetuned_model' = FALSE
    /\ lastRun' = NoRun
    /\ UNCHANGED <<config, default_bbox, poseFilepath, disk, pc, call, locals, err, ret,
                   fetched, written, faults>>

Next ==
    \/ NewPose
    \/ CallSetup
    \/ CallRunAll
    \/ CallRunSubset
    \/ CallLoadModel
    \/ CallTrain
    \/ CallWriteDataframe
    \/ Setup
    \/ PredictEnter
    \/ SubsetSelect
    \/ PredictBatch
    \/ PredictReturn
    \/ WriteTable
    \/ SavePrediction
    \/ SaveMetadata
    \/ RunAllReturn
    \/ Unwind
    \/ Ack

Spec == Init /\ [][Next]_vars

\* ----------------------------------------------------------------- claims
Outcome == pc \in {"returned", "raised"}

\* Points of a box: its corners, its centre and the mid-points of its sides.
SamplePoints(b) ==
    { <<x, y>> : x \in {b[1], (b[1] + b[2]) \div 2, b[2] - 1},
                 y \in {b[3], (b[3] + b[4]) \div 2, b[4] - 1} }

\* predict_landmarks's inverse applied to where preprocess_img puts p.
RoundTrip(p, b) ==
    LET pre == preprocess_img(b, add_padding, resize) IN
    adjust_keypoints(NormalizePoint(p, b, add_padding, resize), crop_xy, pre.pads,
                     <<ModelSide, ModelSide>>, pre.postpad_shape)

RoundTripExact(b) ==
    \A p \in SamplePoints(b) :
        REq(RoundTrip(p, b)[1], Rat(p[1])) /\ REq(RoundTrip(p, b)[2], Rat(p[2]))

\* C1: in every batch of predict_landmarks, for the video's box and the
\* object's addPadding and resize flags, a point of the box mapped forward
\* by preprocess_img and back by adjust_keypoints (crop_xy=(x1, y1),
\* padding=pads, current_size=(256, 256), desired_size=postpad_shape) is the
\* point itself.
C1_RoundTrip ==
    (pc = "predict" /\ BboxConsistent(bbox[PredictVideo], Ly[PredictVideo], Lx[PredictVideo]))
        => RoundTripExact(bbox[PredictVideo])

\* C2: without a progress receiver, pose_prediction_setup does not fail for
\* want of one: it raises nothing but a model load error, and when it returns
\* the boxes are set.
C2_SetupWithoutReceiver ==
    (~gui /\ call.op = "pose_prediction_setup")
        => /\ pc = "raised" => err = "ModelLoadError"
           /\ pc = "returned" => bbox_set

\* While run_all predicts video k, the table and the metadata of every
\* earlier video have been written in this run, and those of video k-1 hold
\* its content.
C3_Persisted ==
    (call.op = "run_all" /\ pc = "predict")
        => /\ \A j \in 1 .. video_id - 1 :
                /\ PoseFilepath(j) \in written
                /\ MetadataFile(PoseFilepath(j)) \in written
           /\ video_id > 1 =>
                /\ disk[PoseFilepath(video_id - 1)]
                     = [video |-> filenames[video_id - 1], what |-> "table"]
                /\ disk[MetadataFile(PoseFilepath(video_id - 1))]
                     = [video |-> filenames[video_id - 1], what |-> "metadata"]

\* C3: in run_all, the table and the metadata of video i are on disk before
\* the prediction of video i+1 begins; and once a call has failed (a frame
\* fetch error in video k, say), no file is written, overwritten or removed on
\* the way out: the outputs of the videos before k stay as they are.
C3_FailureIsolation ==
    /\ [](C3_Persisted)
    /\ [][pc = "raised" => disk' = disk]_vars

\* C3's case: video 2's frame fetch has failed after video 1 was persisted.
C3_Witness ==
    /\ call.op = "run_all" /\ pc = "raised" /\ err = "FrameFetchError"
    /\ video_id = 2
    /\ PoseFilepath(1) \in DOMAIN disk /\ MetadataFile(PoseFilepath(1)) \in DOMAIN disk

\* C4: when persisting fails in run_all, the predictions computed for the
\* video are still there once the error is with the caller: in the return
\* value or in the buffer.
C4_PredictionsKept ==
    [][(pc = "raised" /\ err = "PersistError" /\ pc' = "idle")
          => (ret'.kind # "None" \/ pred_data' = pred_data)]_vars

FinetunedName(path) ==
    path.name[Len(path.name)] \in {"_FacemapPoseFinetuned", "_FacemapFinetuned_metadata"}
PretrainedName(path) ==
    path.name[Len(path.name)] \in {"_FacemapPose", "_Facemap_metadata"}

\* C5: every file run_all writes carries the Finetuned naming if and only if
\* the model the object holds is a fine-tuned one (a loaded custom state file
\* or a trained network), and the pretrained naming otherwise.
C5_NamingFollowsModel ==
    (call.op = "run_all" /\ net.kind \in {"pretrained", "finetuned"})
        => \A path \in written :
              /\ FinetunedName(path) <=> net.kind = "finetuned"
              /\ PretrainedName(path) <=> net.kind = "pretrained"

StrictlyAscending(q) == \A i, j \in DOMAIN q : i < j => q[i] < q[j]

\* C6: run_subset called without indices, failures of setup and of the
\* environment aside, returns a strictly ascending index sequence of length
\* floor(nframes / 10) with values in [0, nframes), and a buffer with one row
\* per index.
C6_SubsetSampling ==
    (call.op = "run_subset" /\ ~call.given)
        => /\ pc = "raised" =>
                err \in {"ModelLoadError", "AttributeError", "FrameFetchError",
                         "GeometricTransformError"}
           /\ pc = "returned" =>
                /\ StrictlyAscending(ret.subset_ind)
                /\ Len(ret.subset_ind) = nframes \div SubsetDivisor
                /\ \A i \in DOMAIN ret.subset_ind :
                      0 <= ret.subset_ind[i] /\ ret.subset_ind[i] < nframes
                /\ Len(ret.pred_data) = Len(ret.subset_ind)

\* C7: write_dataframe on an n x k x 3 array, k the object's keypoints,
\* returns a table of 3k columns (kp1 x, kp1 y, kp1 likelihood, kp2 x, ...)
\* and n rows, labelled 0..n-1 without indices and by the indices otherwise.
C7_TableShape ==
    (call.op = "write_dataframe" /\ Outcome /\ ~bodyparts.none
        /\ call.k = Len(bodyparts.names))
        => /\ pc = "returned"
           /\ Len(ret.columns) = 3 * call.k
           /\ \A c \in DOMAIN ret.columns :
                ret.columns[c] = <<bodyparts.names[((c - 1) \div 3) + 1],
                                   Coords[((c - 1) % 3) + 1]>>
           /\ Len(ret.index) = call.n
           /\ Len(ret.values) = call.n
           /\ ret.index = IF call.sel.none THEN [i \in 1 .. call.n |-> i - 1]
                          ELSE call.sel.ind

\* C8: a box inconsistent with its video's frame is rejected before any
\* frame is fetched: frames are fetched only for videos whose box is
\* consistent.
C8_BadBoxRejected ==
    (call.op \in {"run_all", "run_subset"} /\ fetched > 0 /\ PredictVideo <= Len(bbox))
        => BboxConsistent(bbox[PredictVideo], Ly[PredictVideo], Lx[PredictVideo])

\* C9: a run_all or run_subset call that a model load failure ends has
\* fetched no frame, made no prediction and written no file.
C9_LoadFailsFirst ==
    (call.op \in {"run_all", "run_subset"} /\ pc = "raised" /\ err = "ModelLoadError")
        => fetched = 0 /\ written = {} /\ pred_data = <<>>

\* C9's case: setup's load_model has failed inside run_all.
C9_Witness ==
    call.op = "run_all" /\ pc = "raised" /\ err = "ModelLoadError" /\ net.kind = "none"

SameInputs(r, q) ==
    /\ r.video = q.video /\ r.frame_ind = q.frame_ind /\ r.bbox = q.bbox
    /\ r.resize = q.resize /\ r.add_padding = q.add_padding
    /\ r.model = q.model /\ r.bodyparts = q.bodyparts

\* A full run has filled its buffer after an earlier full run of the same
\* video with the same model, boxes, flags and frames.
SecondRunDone ==
    /\ call.op = "run_all" /\ pc = "predict" /\ start = total_frames
    /\ total_frames > 0
    /\ lastRun.kind = "run"
    /\ SameInputs(lastRun, RunRecord(PredictVideo))

AllModelSized == \A i \in DOMAIN Ly : Ly[i] = ModelSide /\ Lx[i] = ModelSide

\* C11: on a video set whose frames are all 256 x 256, no step of
\* pose_prediction_setup changes the resize or the padding flag: flags that
\* were false at construction are false after the boxes were auto-derived.
C11_IdentityFlags ==
    [][(pc = "setup" /\ AllModelSized)
          => <<resize, add_padding>>' = <<resize, add_padding>>]_vars

\* C11's case: setup has derived the full-frame boxes of a set of 256 x 256
\* videos and both flags are false.
C11_Witness ==
    /\ call.op = "pose_prediction_setup" /\ pc = "returned"
    /\ AllModelSized /\ NumVideos > 1
    /\ bbox = [i \in 1 .. NumVideos |-> FullFrame(i)]
    /\ ~resize /\ ~add_padding

\* The flags video v's own box calls for against the ModelSide x ModelSide
\* input: <<resize, padding>>.
OwnFlags(v) ==
    <<CropShape(bbox[v])[1] # ModelSide \/ CropShape(bbox[v])[2] # ModelSide,
      CropShape(bbox[v])[1] # CropShape(bbox[v])[2]>>

\* C12: in every batch of predict_landmarks(v), the resize and padding flags
\* handed to preprocess_img are those of video v's own box: padding iff the
\* box is not square, resize iff a side differs from 256.
C12_PerVideoFlags ==
    (pc = "predict" /\ BboxConsistent(bbox[PredictVideo], Ly[PredictVideo], Lx[PredictVideo]))
        => <<resize, add_padding>> = OwnFlags(PredictVideo)

\* C13: once the bounding-box list has an entry per video, no later
\* pose_prediction_setup (called directly, or by run_all or run_subset, or
\* again after a setup that raised part-way) changes it.
C13_SetupIdempotent ==
    [][(pc = "setup" /\ Len(bbox) >= NumVideos) => bbox' = bbox]_vars

\* C14: for every requested frame-index sequence, the empty one included,
\* predict_landmarks leaves its loop with the cursor at the sequence's length
\* and then returns the buffer and the metadata of the run: it does not fail
\* after the loop.
C14_LoopEndsInDone ==
    /\ (pc = "raised" /\ call.op \in {"run_all", "run_subset"})
          => err # "ZeroDivisionError"
    /\ pc = "table"
          => /\ start = Len(frame_ind)
             /\ metadata.total_frames = Len(frame_ind)
             /\ Len(pred_data) = Len(frame_ind)

\* The rows below the cursor hold the predictions of their frame indices,
\* the rows from the cursor on are still zero, and while rows remain the next
\* batch starts at the cursor and ends inside the buffer.
RowsFilledToCursor ==
    /\ Len(pred_data) = total_frames /\ total_frames = Len(frame_ind)
    /\ 0 <= start /\ start <= total_frames
    /\ start < total_frames => end = Min(start + BatchSize, total_frames)
    /\ \A i \in 1 .. total_frames :
          pred_data[i] = IF i <= start THEN PredictRow(PredictVideo, frame_ind[i], 0)
                         ELSE ZeroRow

\* C15: during a predict_landmarks run the batches' row ranges [start, end)
\* follow one another from 0 to N without gap or overlap; a batch writes the
\* rows of its range and no other; row i holds the prediction for the i-th
\* requested frame index, and when the cursor reaches N no row is still zero.
C15_RowRanges ==
    /\ [](pc = "predict" => RowsFilledToCursor)
    /\ [](pc = "predict" /\ start = total_frames
            => \A i \in 1 .. total_frames : pred_data[i] # ZeroRow)
    /\ [][(pc = "predict" /\ pc' = "predict")
            => /\ start' = end
               /\ \A i \in 1 .. total_frames :
                     ~InBatch(i) => pred_data'[i] = pred_data[i]]_vars

\* C15's case: a run over several frames has filled its last row.
C15_Witness ==
    /\ pc = "predict" /\ total_frames > 1 /\ start = total_frames
    /\ pred_data[total_frames]
         = PredictRow(PredictVideo, frame_ind[total_frames], 0)

\* C16: in a predict_landmarks run over N >= 1 frames a progress event
\* follows a batch only when the number of frames completed is a positive
\* multiple of floor(0.05 N), and the batches of a run are not all followed
\* by one.
C16_ProgressEvents ==
    /\ [](pc = "predict" /\ start = total_frames /\ total_frames >= 1
            => nprogress < total_frames)
    /\ [][(pc = "predict" /\ pc' = "predict" /\ nprogress' > nprogress)
            => /\ ProgressStep(total_frames) > 0
               /\ start' > 0
               /\ start' % ProgressStep(total_frames) = 0]_vars

\* C17: a Pose object constructed without a bbox argument has, once its setup
\* has set the boxes, exactly one box per video of its own, the full frame of
\* that video, however many such objects were constructed and set up before.
C17_OwnBoxes ==
    (bbox_shared /\ bbox_set)
        => bbox = [i \in 1 .. NumVideos |-> FullFrame(i)]

\* C18: whenever run_all builds the table of a video, the keypoints that
\* name the columns (self.bodyparts) are the keypoints of the network that
\* sized the buffer (self.net.bodyparts), and the table has a column triple
\* per predicted keypoint.
C18_KeypointsAgree ==
    /\ pc = "table"
          => ~bodyparts.none /\ bodyparts.names = net.bodyparts
    /\ pc = "save"
          => Len(dataFrame.columns) = 3 * Len(net.bodyparts)

\* C19: within one run_all, the table and the metadata of every video
\* persisted so far are still on disk under that video's paths: no later
\* video's output has overwritten them.
C19_DistinctPaths ==
    (call.op = "run_all" /\ pc \in {"loop", "predict", "table", "save", "meta"})
        => /\ \A j \in 1 .. video_id - 1 :
                /\ disk[PoseFilepath(j)].video = filenames[j]
                /\ disk[MetadataFile(PoseFilepath(j))].video = filenames[j]
           /\ pc = "meta" => disk[PoseFilepath(video_id)].video = filenames[video_id]

====
